---- MODULE Spec2Model ----
(***************************************************************************)
(* getgit: the install / upgrade decision engine for one tool ("k9s").     *)
(* The state is what the commands read and write: the loaded source        *)
(* manifests, the remote Git repository, the tool's working copy, its      *)
(* .getgit marker file and the .load file entries.  Every command is one   *)
(* action; the side effects it performs are recorded, in order, in the     *)
(* log of the last command.                                                *)
(***************************************************************************)
EXTENDS Integers, Sequences, FiniteSets, TLC

VARIABLES catalog, remote, wc, marker, loadfile, last

vars == <<catalog, remote, wc, marker, loadfile, last>>

\* Number of commits the remote default branch can grow to.
MaxCommit == 2

\* The tool name given on the command line.
ToolName == "k9s"

UpdateTrainRelease == "release"

UpdateTrainEdge == "edge"

(***************************************************************************)
(* Strings that are inspected by prefix are sequences of tokens.           *)
(***************************************************************************)
HasPrefix(s, p) ==
  /\ Len(p) <= Len(s)
  /\ SubSeq(s, 1, Len(p)) = p

TrimPrefix(s, p) ==
  IF HasPrefix(s, p) THEN SubSeq(s, Len(p) + 1, Len(s)) ELSE s

\* strings.EqualFold on the names that occur in the manifests
Fold(name) ==
  CASE name = "K9s" -> "k9s"
    [] name = "K9S" -> "k9s"
    [] OTHER -> name

EqualFold(a, b) == Fold(a) = Fold(b)

(***************************************************************************)
(* Source manifests                                                        *)
(***************************************************************************)
GithubPrefix == <<"https://", "github.com", "/">>

mDefault ==
  [name |-> "default", perms |-> <<>>,
   repos |-> << [name |-> "k9s", url |-> <<"derailed/k9s">>,
                 build |-> "make build", executable |-> "execs/k9s",
                 load |-> <<>>] >>]

mExtra ==
  [name |-> "extra", perms |-> << <<>> >>,
   repos |-> << [name |-> "k9s",
                 url |-> <<"https://", "github.com", "/", "fork/k9s">>,
                 build |-> "go build", executable |-> "bin/k9s",
                 load |-> <<"export K9S=1">>],
                [name |-> "aaa", url |-> <<"fork/aaa">>,
                 build |-> "make", executable |-> "aaa",
                 load |-> <<>>] >>]

\* a manifest that writes the name of the tool with a capital
mCase ==
  [name |-> "case", perms |-> <<>>,
   repos |-> << [name |-> "K9s", url |-> <<"derailed/k9s">>,
                 build |-> "make build", executable |-> "execs/k9s",
                 load |-> <<>>] >>]

mStrict ==
  [name |-> "strict", perms |-> << << <<"github.com">> >> >>,
   repos |-> << [name |-> "k9s",
                 url |-> <<"https://", "gitlab.com", "/", "x/k9s">>,
                 build |-> "cargo build", executable |-> "target/k9s",
                 load |-> <<>>],
                [name |-> "fzf",
                 url |-> <<"https://", "github.com", "/", "x/fzf">>,
                 build |-> "make", executable |-> "bin/fzf",
                 load |-> <<>>] >>]

\* The source directories the user can have: each is the list of manifests
\* in the order LoadSources reads them.
Catalogs ==
  { <<mDefault>>, <<mDefault, mExtra>>, <<mExtra, mDefault>>, <<mStrict>> }

\* variant: the names are compared as they are written
SourceFindRepo_exact(src, name) ==
  SelectSeq([i \in 1..Len(src.repos) |-> [Repo |-> src.repos[i], Source |-> src]],
            LAMBDA m : m.Repo.name = name)

\* Source.FindRepo: the repositories of one manifest with that name
SourceFindRepo(src, name) ==
  LET idx == {i \in 1..Len(src.repos) : EqualFold(src.repos[i].name, name)}
      F[i \in 0..Len(src.repos)] ==
        IF i = 0 THEN <<>>
        ELSE IF i \in idx
             THEN Append(F[i-1], [Repo |-> src.repos[i], Source |-> src])
             ELSE F[i-1]
  IN F[Len(src.repos)]

\* SourceManager.FindRepo: all matches, in manifest load order
FindRepo(cat, name) ==
  LET F[i \in 0..Len(cat)] ==
        IF i = 0 THEN <<>> ELSE F[i-1] \o SourceFindRepo(cat[i], name)
  IN F[Len(cat)]

\* Source.isURLAllowed
isURLAllowed(src, url) ==
  LET hasOriginRestrictions ==
        \E i \in 1..Len(src.perms) : Len(src.perms[i]) > 0
  IN \/ ~hasOriginRestrictions /\ HasPrefix(url, GithubPrefix)
     \/ \E i \in 1..Len(src.perms) :
          \/ Len(src.perms[i]) = 0
          \/ \E o \in 1..Len(src.perms[i]) : HasPrefix(url, src.perms[i][o])

\* variant: the URL is normalized but not validated
NormalizeAndValidateURL_unchecked(cat, url) ==
  LET absolute == HasPrefix(url, <<"http://">>) \/ HasPrefix(url, <<"https://">>)
  IN [err |-> FALSE,
      url |-> IF absolute THEN url
              ELSE GithubPrefix \o TrimPrefix(url, <<"github.com", "/">>)
                   \o <<".git">>]

\* SourceManager.NormalizeAndValidateURL: the URL is checked against every
\* loaded manifest
NormalizeAndValidateURL(cat, url) ==
  LET absolute == HasPrefix(url, <<"http://">>) \/ HasPrefix(url, <<"https://">>)
      cleanURL == TrimPrefix(TrimPrefix(TrimPrefix(url,
                     <<"github.com", "/">>),
                     <<"https://", "github.com", "/">>),
                     <<"http://", "github.com", "/">>)
      normalizedURL == IF absolute THEN url
                       ELSE GithubPrefix \o cleanURL \o <<".git">>
  IN [err |-> \E i \in 1..Len(cat) : ~isURLAllowed(cat[i], normalizedURL),
      url |-> normalizedURL]

(***************************************************************************)
(* The .getgit marker file: a sequence of lines.  A line is [k, v]: plain  *)
(* text has k = "" and v = <<text>>, a YAML line "key: value" has k = key. *)
(***************************************************************************)
Raw(s) == [k |-> "", v |-> <<s>>]

heredocStart == Raw(": <<'EOF'")

heredocEnd == Raw("EOF")

NoMarker == [exists |-> FALSE, lines |-> <<>>]

\* the lines that start with "#" once the blanks around them are trimmed
CommentLines == {"#!/bin/bash", "# init"}

IsComment(l) == l.k = "" /\ l.v[1] \in CommentLines

\* GetGitFile.Validate
Validate(g) ==
  /\ g.SourceName # ""
  /\ g.UpdateTrain \in {UpdateTrainRelease, UpdateTrainEdge}

YamlGet(yaml, key) ==
  LET idx == {i \in 1..Len(yaml) : yaml[i].k = key}
  IN IF idx = {} THEN <<"">>
     ELSE yaml[CHOOSE i \in idx : \A j \in idx : j <= i].v

RECURSIVE ScanLines(_, _, _, _, _)
ScanLines(lines, i, inHeredoc, yamlContent, loadCommands) ==
  IF i > Len(lines) THEN [yaml |-> yamlContent, load |-> loadCommands]
  ELSE LET line == lines[i] IN
    IF line = heredocStart
      THEN ScanLines(lines, i + 1, TRUE, yamlContent, loadCommands)
    ELSE IF line = heredocEnd
      THEN ScanLines(lines, i + 1, FALSE, yamlContent, loadCommands)
    ELSE IF inHeredoc
      THEN ScanLines(lines, i + 1, inHeredoc, Append(yamlContent, line), loadCommands)
    ELSE IF line # Raw("") /\ ~IsComment(line)
      THEN ScanLines(lines, i + 1, inHeredoc, yamlContent, Append(loadCommands, line.v[1]))
    ELSE ScanLines(lines, i + 1, inHeredoc, yamlContent, loadCommands)

\* ReadFromRepo: [nil] no file, [err] a file that does not validate,
\* otherwise the parsed GetGitFile g
ReadFromRepo(m) ==
  IF ~m.exists
  THEN [nil |-> TRUE, err |-> FALSE,
        g |-> [SourceName |-> "", UpdateTrain |-> "", Load |-> <<>>]]
  ELSE LET sc == ScanLines(m.lines, 1, FALSE, <<>>, <<>>)
           g == [SourceName |-> YamlGet(sc.yaml, "sourcefile")[1],
                 UpdateTrain |-> YamlGet(sc.yaml, "updates")[1],
                 Load |-> sc.load]
       IN [nil |-> FALSE, err |-> ~Validate(g), g |-> g]

\* variant: a train other than release and edge is rejected
WriteToRepo_strict(sourceName, updateTrain, loadCommand) ==
  LET g == [SourceName |-> sourceName, UpdateTrain |-> updateTrain,
            Load |-> loadCommand]
  IN [err |-> ~Validate(g),
      m |-> [exists |-> TRUE,
             lines |-> << Raw("#!/bin/bash"), Raw(""), heredocStart,
                          [k |-> "sourcefile", v |-> <<sourceName>>],
                          [k |-> "updates", v |-> <<updateTrain>>],
                          [k |-> "load", v |-> loadCommand],
                          heredocEnd, Raw("") >>
                       \o [i \in 1..Len(loadCommand) |-> Raw(loadCommand[i])]]]

\* WriteToRepo: the new file, or err when validation rejects the record
WriteToRepo(sourceName, updateTrain, loadCommand) ==
  LET train == IF updateTrain \notin {UpdateTrainRelease, UpdateTrainEdge}
               THEN UpdateTrainRelease ELSE updateTrain
      g == [SourceName |-> sourceName, UpdateTrain |-> train, Load |-> loadCommand]
      content ==
        << Raw("#!/bin/bash"), Raw(""), heredocStart,
           [k |-> "sourcefile", v |-> <<sourceName>>],
           [k |-> "updates", v |-> <<train>>],
           [k |-> "load", v |-> loadCommand],
           heredocEnd, Raw("") >>
        \o (IF loadCommand = <<>> THEN <<Raw("")>>
            ELSE [i \in 1..Len(loadCommand) |-> Raw(loadCommand[i])])
  IN [err |-> ~Validate(g), m |-> [exists |-> TRUE, lines |-> content]]

(***************************************************************************)
(* Git.  Commits of the default branch are 1, 2, ...; a tag is named by    *)
(* the commit it points to, and 0 stands for "no tag" (the empty string).  *)
(* The working copy keeps what the last clone / fetch / pull saw of the    *)
(* remote: originMain and tags.                                            *)
(***************************************************************************)
NoRepo ==
  [exists |-> FALSE, head |-> 0, detached |-> FALSE, branch |-> 0,
   originMain |-> 0, tags |-> {}]

MaxOf(S) == CHOOSE x \in S : \A y \in S : y <= x

MinOf(S) == CHOOSE x \in S : \A y \in S : x <= y

\* GitOps.Clone
Clone(r) ==
  [exists |-> TRUE, head |-> r.head, detached |-> FALSE, branch |-> r.head,
   originMain |-> r.head, tags |-> r.tags]

\* git fetch --tags origin
FetchUpdates(w, r) ==
  [w EXCEPT !.originMain = r.head, !.tags = w.tags \cup r.tags]

\* GitOps.GetLatestTag: git describe --tags --abbrev=0, the nearest tag
\* reachable from HEAD; no error is ever returned
GetLatestTag(w) ==
  LET reach == {t \in w.tags : t <= w.head}
  IN IF reach = {} THEN 0 ELSE MaxOf(reach)

\* GitOps.GetCurrentTag: git describe --tags --exact-match
GetCurrentTag(w) == IF w.head \in w.tags THEN w.head ELSE 0

\* GitOps.GetCurrentRef: the tag on HEAD, else the commit hash
GetCurrentRef(w) ==
  IF w.head \in w.tags THEN <<"tag", w.head>> ELSE <<"hash", w.head>>

\* GitOps.HasTags: git tag
HasTags(w) == w.tags # {}

\* GitOps.IsTagNewer: commit timestamps grow with the commit number
IsTagNewer(currentTag, newTag) == newTag > currentTag

\* GitOps.HasEdgeUpdates.  On a detached HEAD the default branch is asked
\* from the remote (git remote show origin), which needs the network.
HasEdgeUpdates(w, net) ==
  [err |-> w.detached /\ ~net, has |-> w.head # w.originMain]

(***************************************************************************)
(* A command run is threaded through a context: the files it has changed   *)
(* so far, the log of its side effects and, once it returns, its outcome.  *)
(***************************************************************************)
Ctx(w, m, lf) ==
  [wc |-> w, marker |-> m, loadfile |-> lf, log |-> <<>>, outcome |-> "",
   train |-> "", source |-> "", dir |-> ToolName]

Ev(c, e, a, b) == [c EXCEPT !.log = Append(@, [e |-> e, a |-> a, b |-> b])]

Return(c, outcome) == [c EXCEPT !.outcome = outcome]

\* GitOps.UpdateRepo
UpdateRepo(c, useEdge, r, net) ==
  IF useEdge
  THEN LET w1 == [c.wc EXCEPT !.head = c.wc.branch, !.detached = FALSE]
           c1 == Ev([c EXCEPT !.wc = w1], "checkout", "main", "ok")
       IN IF ~net THEN Return(Ev(c1, "pull", "origin", "fail"), "vcsfail")
          ELSE LET w2 == [FetchUpdates(w1, r) EXCEPT !.branch = r.head,
                                                     !.head = r.head]
               IN Ev([c1 EXCEPT !.wc = w2], "pull", "origin", "ok")
  ELSE IF ~net THEN Return(Ev(c, "fetch", "tags", "fail"), "vcsfail")
       ELSE LET w1 == FetchUpdates(c.wc, r)
                c1 == Ev([c EXCEPT !.wc = w1], "fetch", "tags", "ok")
                tag == GetLatestTag(w1)
            IN IF tag = 0
               THEN Return(Ev(c1, "checkout", "", "fail"), "vcsfail")
               ELSE Ev([c1 EXCEPT !.wc = [w1 EXCEPT !.head = tag,
                                                    !.detached = TRUE]],
                       "checkout", "tag", "ok")

\* LoadManager.AddSource: reads the marker; registers it when it has a load
\* command
AddSource(c) ==
  LET gf == ReadFromRepo(c.marker)
  IN IF gf.err THEN Return(c, "sourceerr")
     ELSE IF ~gf.nil /\ gf.g.Load # <<>>
          THEN Ev([c EXCEPT !.loadfile.source = TRUE], "source", "", "ok")
          ELSE c

\* LoadManager.AddAlias
AddAlias(c, execPath) ==
  Ev([c EXCEPT !.loadfile.alias = execPath], "alias", execPath, "ok")

\* variant: the alias is registered only when the ref has changed
UpdatePackage_ifMoved(c, repo, r, net, buildOk) ==
  IF ~c.wc.exists \/ repo.Name # c.dir THEN Return(c, "norepo")
  ELSE
  LET currentRef == GetCurrentRef(c.wc)
      c1 == UpdateRepo(c, repo.UseEdge, r, net)
      newRef == GetCurrentRef(c1.wc)
      c2 == IF currentRef # newRef /\ ~repo.SkipBuild
            THEN IF buildOk THEN Ev(c1, "build", repo.Build, "ok")
                 ELSE Return(Ev(c1, "build", repo.Build, "fail"), "buildfail")
            ELSE c1
      c3 == IF repo.Executable # "" /\ currentRef # newRef
            THEN AddAlias(c2, repo.Executable) ELSE c2
  IN IF c1.outcome # "" THEN c1
     ELSE IF c2.outcome # "" THEN c2
     ELSE AddSource(c3)

\* Manager.UpdatePackage: its directory is named by repo.Name, the directory
\* c.wc of the command by the tool name as typed (c.dir); under another
\* name there is no directory
UpdatePackage(c, repo, r, net, buildOk) ==
  IF ~c.wc.exists \/ repo.Name # c.dir THEN Return(c, "norepo")
  ELSE
  LET currentRef == GetCurrentRef(c.wc)
      c1 == UpdateRepo(c, repo.UseEdge, r, net)
      newRef == GetCurrentRef(c1.wc)
      c2 == IF currentRef # newRef /\ ~repo.SkipBuild
            THEN IF buildOk THEN Ev(c1, "build", repo.Build, "ok")
                 ELSE Return(Ev(c1, "build", repo.Build, "fail"), "buildfail")
            ELSE c1
      c3 == IF repo.Executable # "" THEN AddAlias(c2, repo.Executable) ELSE c2
  IN IF c1.outcome # "" THEN c1
     ELSE IF c2.outcome # "" THEN c2
     ELSE AddSource(c3)

\* variant: the marker's train is taken before the flags are looked at
GetUpdateTrain_markerFirst(w, m, edge, release) ==
  LET gf == ReadFromRepo(m)
  IN IF ~gf.err /\ ~gf.nil THEN <<gf.g.UpdateTrain, FALSE>>
     ELSE IF edge THEN <<UpdateTrainEdge, FALSE>>
     ELSE IF release /\ HasTags(w) THEN <<UpdateTrainRelease, FALSE>>
     ELSE IF w.exists /\ ~HasTags(w) THEN <<UpdateTrainEdge, TRUE>>
     ELSE <<UpdateTrainRelease, FALSE>>

\* getgitfile.Manager.GetUpdateTrain; git tag -l fails when the tool
\* directory does not exist
GetUpdateTrain(w, m, edge, release) ==
  LET hasTagsErr == ~w.exists
      hasTags == HasTags(w)
      gf == ReadFromRepo(m)
  IN IF edge THEN <<UpdateTrainEdge, FALSE>>
     ELSE IF release
       THEN IF ~hasTagsErr /\ ~hasTags THEN <<UpdateTrainEdge, TRUE>>
            ELSE <<UpdateTrainRelease, FALSE>>
     ELSE IF ~gf.err /\ ~gf.nil
       THEN <<gf.g.UpdateTrain, gf.g.UpdateTrain = UpdateTrainEdge>>
     ELSE IF ~hasTagsErr /\ ~hasTags THEN <<UpdateTrainEdge, TRUE>>
     ELSE <<UpdateTrainRelease, FALSE>>

\* getgitfile.Manager.Write: write the marker into the tool directory
WriteMarker(c, sourceName, updateTrain, loadCommand) ==
  LET wr == WriteToRepo(sourceName, updateTrain, loadCommand)
  IN IF wr.err \/ ~c.wc.exists THEN Return(c, "writeerr")
     ELSE Ev([c EXCEPT !.marker = wr.m], "write", sourceName,
             wr.m.lines[5].v[1])

\* getgitfile.Manager.WriteConfig: it writes the record it is given, as
\* Manager.Write does
WriteConfig(c, sourceName, updateTrain, loadCommand) ==
  WriteMarker(c, sourceName, updateTrain, loadCommand)

\* repository.Manager.WriteToolConfig
WriteToolConfig(c, sourceName, updateTrain, loadCommand) ==
  WriteConfig(c, sourceName, updateTrain, loadCommand)

\* The Repository value handed to UpdatePackage
RepoOf(sel, useEdge, skipBuild) ==
  [Name |-> sel.Repo.name, Build |-> sel.Repo.build,
   Executable |-> sel.Repo.executable, Load |-> sel.Repo.load,
   UseEdge |-> useEdge, SkipBuild |-> skipBuild,
   SourceName |-> sel.Source.name]

\* variant: when the named manifest has no match, the first match is taken
PinnedMatch_fallback(matches, sourceName) ==
  LET idx == {i \in 1..Len(matches) : matches[i].Source.name = sourceName}
  IN IF idx = {} THEN (IF Len(matches) = 0 THEN 0 ELSE 1) ELSE MinOf(idx)

\* variant: the marker is ignored and the first match is taken
PinnedMatch_first(matches, sourceName) ==
  IF Len(matches) = 0 THEN 0 ELSE 1

\* the match pinned by the marker: the first match of the named manifest
PinnedMatch(matches, sourceName) ==
  LET idx == {i \in 1..Len(matches) : matches[i].Source.name = sourceName}
  IN IF idx = {} THEN 0 ELSE MinOf(idx)

\* variant: an answer that is no valid number selects the first match
promptSourceSelection_first(matches, choice) ==
  IF choice < 1 \/ choice > Len(matches) THEN 1 ELSE choice

\* promptSourceSelection: the number typed by the user; 0 means no match
promptSourceSelection(matches, choice) ==
  IF choice < 1 \/ choice > Len(matches) THEN 0 ELSE choice

(***************************************************************************)
(* install                                                                 *)
(***************************************************************************)
\* The update check of installTool: it reads the working copy as it is,
\* without fetching
installCheck(w, useEdgeTrain, net) ==
  IF useEdgeTrain
  THEN HasEdgeUpdates(w, net)
  ELSE [err |-> FALSE,
        has |-> HasTags(w) /\ GetCurrentTag(w) # GetLatestTag(w)]

\* variant: the package is updated first and the marker written afterwards
installSwitch_late(c, sel, newUpdateTrain, repo, r, net, buildOk) ==
  LET s1 == UpdatePackage(c, repo, r, net, buildOk)
      s2 == WriteMarker(s1, sel.Source.name, newUpdateTrain, sel.Repo.load)
  IN IF s1.outcome # "" THEN s1
     ELSE IF s2.outcome # "" THEN s2
     ELSE Return(s2, "switched")

\* installTool, train switch: the marker is written first, then the
\* package is updated and the command returns
installSwitch(c, sel, newUpdateTrain, repo, r, net, buildOk) ==
  LET s1 == WriteMarker(c, sel.Source.name, newUpdateTrain, sel.Repo.load)
      s2 == UpdatePackage(s1, repo, r, net, buildOk)
  IN IF s1.outcome # "" THEN s1
     ELSE IF s2.outcome # "" THEN s2
     ELSE Return(s2, "switched")

\* installTool, existing installation on the same train: update check, then
\* the package is updated
installUpdate(c, newUpdateTrain, repo, r, net, buildOk) ==
  LET chk == installCheck(c.wc, repo.UseEdge, net)
      u1 == Ev(c, "check", newUpdateTrain, IF chk.has THEN "updates" ELSE "none")
      u2 == UpdatePackage(u1, repo, r, net, buildOk)
  IN IF chk.err THEN Return(c, "checkerr")
     ELSE IF ~chk.has THEN Return(u1, "uptodate")
     ELSE IF u2.outcome # "" THEN u2
     ELSE Return(u2, "installed")

\* installTool, new installation: clone, marker, then the package
installNew(c, sel, newUpdateTrain, repo, r, net, buildOk) ==
  LET n1 == Ev([c EXCEPT !.wc = Clone(r)], "clone", sel.Source.name, "ok")
      n2 == WriteMarker(n1, sel.Source.name, newUpdateTrain, sel.Repo.load)
      n3 == UpdatePackage(n2, repo, r, net, buildOk)
  IN IF ~net
     THEN Return(Ev(c, "clone", sel.Source.name, "fail"), "clonefail")
     ELSE IF n2.outcome # "" THEN n2
     ELSE IF n3.outcome # "" THEN n3
     ELSE Return(n3, "installed")

\* installTool from the point where the match is selected
installSelected(c, cat, r, sel, hasFile, g, edge, release, skipBuild, net, buildOk) ==
  LET nv == NormalizeAndValidateURL(cat, sel.Repo.url)
      newUpdateTrain == GetUpdateTrain(c.wc, c.marker, edge, release)[1]
      useEdgeTrain == newUpdateTrain = UpdateTrainEdge
      c0 == [c EXCEPT !.source = sel.Source.name]
      c1 == [c0 EXCEPT !.train = newUpdateTrain]
      repo == RepoOf(sel, useEdgeTrain, skipBuild)
      updateTrainChanged ==
        IF hasFile THEN g.UpdateTrain # newUpdateTrain ELSE useEdgeTrain
  IN IF nv.err THEN Return(c0, "urlfail")
     ELSE IF c.wc.exists
     THEN IF updateTrainChanged
          THEN installSwitch(c1, sel, newUpdateTrain, repo, r, net, buildOk)
          ELSE installUpdate(c1, newUpdateTrain, repo, r, net, buildOk)
     ELSE installNew(c1, sel, newUpdateTrain, repo, r, net, buildOk)

\* installTool
installTool(cat, r, w, m, lf, edge, release, skipBuild, choice, net, buildOk) ==
  LET c0 == Ctx(w, m, lf)
      matches == FindRepo(cat, ToolName)
      isExistingInstall == w.exists
      rd == ReadFromRepo(m)
      hasFile == isExistingInstall /\ ~rd.nil /\ ~rd.err
      pin == PinnedMatch(matches, rd.g.SourceName)
      pick == promptSourceSelection(matches, choice)
      selIdx == IF hasFile THEN pin
                ELSE IF Len(matches) = 1 THEN 1 ELSE pick
      c1 == IF ~hasFile /\ Len(matches) > 1
            THEN Ev(c0, "prompt", matches[selIdx].Source.name, "ok") ELSE c0
  IN IF Len(matches) = 0 THEN Return(c0, "notfound")
     ELSE IF isExistingInstall /\ rd.err THEN Return(c0, "readerr")
     ELSE IF hasFile /\ pin = 0 THEN Return(c0, "stale")
     ELSE IF ~hasFile /\ Len(matches) > 1 /\ pick = 0
       THEN Return(Ev(c0, "prompt", "", "fail"), "selectfail")
     ELSE installSelected(c1, cat, r, matches[selIdx], hasFile, rd.g,
                          edge, release, skipBuild, net, buildOk)

(***************************************************************************)
(* upgrade                                                                 *)
(***************************************************************************)
\* checkForUpdates: fetches, then compares
checkForUpdates(w, useEdge) ==
  IF useEdge THEN w.head # w.originMain
  ELSE LET currentTag == GetCurrentTag(w)
           latestTag == GetLatestTag(w)
       IN IF latestTag = 0 THEN TRUE
          ELSE IF currentTag = 0 THEN TRUE
          ELSE IsTagNewer(currentTag, latestTag)

\* upgradeSpecificTool from the point where the match is selected
upgradeSelected(c, r, sel, useEdge, skipBuild, net, buildOk) ==
  LET c1 == [c EXCEPT !.train = IF useEdge THEN UpdateTrainEdge
                                ELSE UpdateTrainRelease,
                      !.source = sel.Source.name]
      f1 == Ev([c1 EXCEPT !.wc = FetchUpdates(c1.wc, r)], "fetch", "tags", "ok")
      hasUpdates == checkForUpdates(f1.wc, useEdge)
      f2 == Ev(f1, "check", c1.train, IF hasUpdates THEN "updates" ELSE "none")
      u1 == UpdatePackage(f2, RepoOf(sel, useEdge, skipBuild), r, net, buildOk)
      u2 == WriteToolConfig(u1, sel.Source.name, "release", sel.Repo.load)
  IN IF ~net THEN Return(Ev(c1, "fetch", "tags", "fail"), "neterr")
     ELSE IF ~hasUpdates THEN Return(f2, "uptodate")
     ELSE IF u1.outcome # "" THEN u1
     ELSE IF u2.outcome # "" THEN u2
     ELSE Return(u2, "updated")

\* upgradeSpecificTool
upgradeSpecificTool(cat, toolName, r, w, m, lf, skipBuild, choice, net, buildOk) ==
  LET c0 == [Ctx(w, m, lf) EXCEPT !.dir = toolName]
      matches == FindRepo(cat, toolName)
      rd == ReadFromRepo(m)
      hasFile == ~rd.nil /\ ~rd.err
      pin == PinnedMatch(matches, rd.g.SourceName)
      pick == promptSourceSelection(matches, choice)
      selIdx == IF hasFile THEN pin
                ELSE IF Len(matches) = 1 THEN 1 ELSE pick
      prompted == ~hasFile /\ Len(matches) > 1
      p1 == Ev(c0, "prompt", matches[selIdx].Source.name, "ok")
      p2 == WriteMarker(p1, matches[selIdx].Source.name, "release",
                        matches[selIdx].Repo.load)
      useEdge == hasFile /\ rd.g.UpdateTrain = "edge"
  IN IF ~w.exists THEN Return(c0, "notinstalled")
     ELSE IF Len(matches) = 0 THEN Return(c0, "notfound")
     ELSE IF rd.err THEN Return(c0, "readerr")
     ELSE IF hasFile /\ pin = 0 THEN Return(c0, "stale")
     ELSE IF prompted /\ pick = 0
       THEN Return(Ev(c0, "prompt", "", "fail"), "selectfail")
     ELSE IF prompted /\ p2.outcome # "" THEN p2
     ELSE upgradeSelected(IF prompted THEN p2 ELSE c0, r, matches[selIdx],
                          useEdge, skipBuild, net, buildOk)

\* the outcomes with which a command reports success
Success == {"installed", "switched", "updated", "uptodate"}

\* whether the command hands an error to cobra, which Execute turns into
\* exit status 1: install reports "already up to date" with a nil error,
\* upgradeSpecificTool reports it with fmt.Errorf
ReturnsError(op, outcome) ==
  IF op = "install" THEN outcome \notin Success
  ELSE outcome # "updated"

(***************************************************************************)
(* upgrade without arguments.  The work directory holds the directory of   *)
(* k9s when it is installed and, besides it, any of three other entries:   *)
(* aaa and zed are working copies, notes is a directory without .git.      *)
(* os.ReadDir lists the entries sorted by name.                            *)
(***************************************************************************)
OtherEntries == {"aaa", "notes", "zed"}

entries(w, others) ==
  SelectSeq(<<"aaa", ToolName, "notes", "zed">>,
            LAMBDA n : IF n = ToolName THEN w.exists ELSE n \in others)

\* os.Stat(toolPath/.git) succeeds
hasGit(name) == name # "notes"

\* the working copy of aaa and of zed: a clone of a repository whose only
\* commit is tagged, with no .getgit file
OtherRemote == [head |-> 1, tags |-> {1}]

\* upgradeAllTools, the counters before the loop
Batch(w, m, lf, total) ==
  [wc |-> w, marker |-> m, loadfile |-> lf, total |-> total,
   attempts |-> <<>>, updated |-> 0, skipped |-> 0, errors |-> 0]

\* upgradeAllTools, the end of one turn of the loop: the result u of
\* upgradeSpecificTool is counted as skipped, failed or updated
Counted(acc, name, isTool, readErr, u) ==
  IF readErr
  THEN [acc EXCEPT !.errors = @ + 1,
                   !.attempts = Append(@, [name |-> name,
                                           outcome |-> "readerr"])]
  ELSE [acc EXCEPT !.wc = IF isTool THEN u.wc ELSE @,
                   !.marker = IF isTool THEN u.marker ELSE @,
                   !.loadfile = u.loadfile,
                   !.attempts = Append(@, [name |-> name,
                                           outcome |-> u.outcome]),
                   !.skipped = IF u.outcome = "uptodate" THEN @ + 1 ELSE @,
                   !.errors = IF u.outcome # "uptodate"
                                 /\ ReturnsError("upgrade", u.outcome)
                              THEN @ + 1 ELSE @,
                   !.updated = IF ~ReturnsError("upgrade", u.outcome)
                               THEN @ + 1 ELSE @]

\* variant: the loop is left at the first failure
upgradeEntry_abort(acc, name, cat, r, skipBuild, choice, net, buildOk) ==
  LET isTool == name = ToolName
  IN IF ~hasGit(name) \/ acc.errors > 0 THEN acc
     ELSE Counted(acc, name, isTool,
                  isTool /\ ReadFromRepo(acc.marker).err,
                  upgradeSpecificTool(cat, name,
                                      IF isTool THEN r ELSE OtherRemote,
                                      IF isTool THEN acc.wc
                                      ELSE Clone(OtherRemote),
                                      IF isTool THEN acc.marker ELSE NoMarker,
                                      acc.loadfile, skipBuild, choice, net,
                                      buildOk))

\* variant: an entry whose .getgit file cannot be read is passed over
\* without being counted
upgradeEntry_uncounted(acc, name, cat, r, skipBuild, choice, net, buildOk) ==
  LET isTool == name = ToolName
  IN IF ~hasGit(name) \/ (isTool /\ ReadFromRepo(acc.marker).err) THEN acc
     ELSE Counted(acc, name, isTool, FALSE,
                  upgradeSpecificTool(cat, name,
                                      IF isTool THEN r ELSE OtherRemote,
                                      IF isTool THEN acc.wc
                                      ELSE Clone(OtherRemote),
                                      IF isTool THEN acc.marker ELSE NoMarker,
                                      acc.loadfile, skipBuild, choice, net,
                                      buildOk))

\* upgradeAllTools, one turn of the loop over the entries; aaa and zed
\* have no .getgit file
upgradeEntry(acc, name, cat, r, skipBuild, choice, net, buildOk) ==
  LET isTool == name = ToolName
  IN IF ~hasGit(name) THEN acc
     ELSE Counted(acc, name, isTool,
                  isTool /\ ReadFromRepo(acc.marker).err,
                  upgradeSpecificTool(cat, name,
                                      IF isTool THEN r ELSE OtherRemote,
                                      IF isTool THEN acc.wc
                                      ELSE Clone(OtherRemote),
                                      IF isTool THEN acc.marker ELSE NoMarker,
                                      acc.loadfile, skipBuild, choice, net,
                                      buildOk))

RECURSIVE upgradeLoop(_, _, _, _, _, _, _, _)
upgradeLoop(acc, names, cat, r, skipBuild, choice, net, buildOk) ==
  IF names = <<>> THEN acc
  ELSE upgradeLoop(upgradeEntry(acc, Head(names), cat, r, skipBuild, choice,
                                net, buildOk),
                   Tail(names), cat, r, skipBuild, choice, net, buildOk)

\* upgradeAllTools: count the working copies, then try each of them; err is
\* the error returned when at least one of them failed
upgradeAllTools(cat, r, w, m, lf, others, skipBuild, choice, net, buildOk) ==
  LET names == entries(w, others)
      total == Len(SelectSeq(names, hasGit))
      acc == upgradeLoop(Batch(w, m, lf, total), names, cat, r, skipBuild,
                         choice, net, buildOk)
  IN [wc |-> acc.wc, marker |-> acc.marker, loadfile |-> acc.loadfile,
      total |-> total, attempts |-> acc.attempts, updated |-> acc.updated,
      skipped |-> acc.skipped, failed |-> acc.errors,
      err |-> total # 0 /\ acc.errors > 0]

\* upgradeCmd: only --skip-build is registered, any other flag is rejected
\* by the flag parser before RunE
upgradeCmd(cat, r, w, m, lf, flag, skipBuild, choice, net, buildOk) ==
  IF flag # "" THEN Return(Ctx(w, m, lf), "usage")
  ELSE upgradeSpecificTool(cat, ToolName, r, w, m, lf, skipBuild, choice,
                           net, buildOk)

(***************************************************************************)
(* State machine                                                           *)
(***************************************************************************)
NoLoad == [alias |-> "", source |-> FALSE]

\* what the tool directory and the load file held when a command started
Pre(w, m, lf) == [wc |-> w, marker |-> m, loadfile |-> lf]

(***************************************************************************)
(* uninstall.  The work directory holds k9s and a second tool, aaa; the    *)
(* state of a tool is its directory (working copy and .getgit file) and    *)
(* its entries in the alias file.                                          *)
(***************************************************************************)
Tools == {ToolName, "aaa"}

\* the tool is not installed and the alias file does not mention it
Gone == [wc |-> NoRepo, marker |-> NoMarker, loadfile |-> NoLoad]

\* aaa, not installed or installed from the manifest extra
OtherTools ==
  { Gone,
    [wc |-> Clone(OtherRemote),
     marker |-> WriteToRepo("extra", UpdateTrainRelease, <<>>).m,
     loadfile |-> [alias |-> "aaa", source |-> FALSE]] }

\* variant: the alias file is written anew with no entry at all
RemoveAlias_all(dir, toolName) ==
  [t \in DOMAIN dir |-> [dir[t] EXCEPT !.loadfile = NoLoad]]

\* AliasManager.RemoveAlias: the alias and the source line of the tool are
\* deleted, the file is written again with the entries that are left
RemoveAlias(dir, toolName) ==
  [t \in DOMAIN dir |->
     IF t = toolName THEN [dir[t] EXCEPT !.loadfile = NoLoad] ELSE dir[t]]

\* uninstallCmd.RunE
uninstallCmd(dir, toolName) ==
  IF ~dir[toolName].wc.exists
  THEN [err |-> TRUE, dir |-> dir]
  ELSE [err |-> FALSE,
        dir |-> RemoveAlias([dir EXCEPT ![toolName].wc = NoRepo,
                                       ![toolName].marker = NoMarker],
                            toolName)]

\* the command that has just run: its arguments, what it met, what it did
\* (log), the train and the manifest it resolved, and what it started from
Call(op, flag, skipBuild, choice, fault, c, pre) ==
  [op |-> op, flag |-> flag, skipBuild |-> skipBuild, choice |-> choice,
   fault |-> fault, outcome |-> c.outcome, log |-> c.log,
   train |-> c.train, source |-> c.source, pre |-> pre]

\* no command has run since the last one returned
NoCall ==
  [op |-> "none", flag |-> "", skipBuild |-> FALSE, choice |-> 0,
   fault |-> "none", outcome |-> "", log |-> <<>>, train |-> "",
   source |-> "", pre |-> Pre(NoRepo, NoMarker, NoLoad)]

\* the train recorded by a present and valid marker, "" otherwise
RecordedTrain(m) ==
  LET rd == ReadFromRepo(m)
  IN IF rd.nil \/ rd.err THEN "" ELSE rd.g.UpdateTrain

RecordedSource(m) ==
  LET rd == ReadFromRepo(m)
  IN IF rd.nil \/ rd.err THEN "" ELSE rd.g.SourceName

Init ==
  /\ catalog \in Catalogs
  /\ remote \in {[head |-> 1, tags |-> {}], [head |-> 1, tags |-> {1}]}
  /\ wc = NoRepo
  /\ marker = NoMarker
  /\ loadfile = NoLoad
  /\ last = NoCall

\* the numbers the user can type at the selection prompt (0: not a
\* number of the list); the prompt only appears when no marker pins the
\* match and several manifests have the tool
Choices ==
  LET n == Len(FindRepo(catalog, ToolName))
  IN IF n > 1 /\ RecordedTrain(marker) = "" THEN 0..n ELSE {0}

\* what can go wrong outside the program during one command
Faults == {"none", "net", "build"}

\* a failing build command shows only when the build is run
FaultsWith(skipBuild) == IF skipBuild THEN Faults \ {"build"} ELSE Faults

\* the shell runs one command at a time
Idle == last = NoCall

\* one run of: getgit install k9s [--edge | --release] [--skip-build]
InstallWith(flag, skipBuild, choice, fault) ==
  /\ Idle
  /\ \E c \in {installTool(catalog, remote, wc, marker, loadfile,
                           flag = "--edge", flag = "--release", skipBuild,
                           choice, fault # "net", fault # "build")} :
       /\ wc' = c.wc
       /\ marker' = c.marker
       /\ loadfile' = c.loadfile
       /\ last' = Call("install", flag, skipBuild, choice, fault, c,
                       Pre(wc, marker, loadfile))
  /\ UNCHANGED <<catalog, remote>>

Install ==
  \E flag \in {"", "--edge", "--release"}, skipBuild \in BOOLEAN,
     choice \in Choices :
    \E fault \in FaultsWith(skipBuild) :
      InstallWith(flag, skipBuild, choice, fault)

\* one run of: getgit upgrade k9s [flags]
UpgradeWith(flag, skipBuild, choice, fault) ==
  /\ Idle
  /\ \E c \in {upgradeCmd(catalog, remote, wc, marker, loadfile, flag,
                          skipBuild, choice, fault # "net", fault # "build")} :
       /\ wc' = c.wc
       /\ marker' = c.marker
       /\ loadfile' = c.loadfile
       /\ last' = Call("upgrade", flag, skipBuild, choice, fault, c,
                       Pre(wc, marker, loadfile))
  /\ UNCHANGED <<catalog, remote>>

Upgrade ==
  \/ UpgradeWith("--edge", FALSE, 0, "none")
  \/ \E skipBuild \in BOOLEAN, choice \in Choices :
       \E fault \in FaultsWith(skipBuild) :
         UpgradeWith("", skipBuild, choice, fault)

\* the command returns to the shell
Exit ==
  /\ ~Idle
  /\ last' = NoCall
  /\ UNCHANGED <<catalog, remote, wc, marker, loadfile>>

\* getgit uninstall k9s
Uninstall ==
  /\ Idle
  /\ wc.exists
  /\ wc' = NoRepo
  /\ marker' = NoMarker
  /\ loadfile' = NoLoad
  /\ UNCHANGED <<catalog, remote, last>>

\* upstream pushes a commit to the default branch
RemotePush ==
  /\ Idle
  /\ remote.head < MaxCommit
  /\ remote' = [remote EXCEPT !.head = @ + 1]
  /\ UNCHANGED <<catalog, wc, marker, loadfile, last>>

\* upstream tags the tip of the default branch
RemoteTag ==
  /\ Idle
  /\ remote.head \notin remote.tags
  /\ remote' = [remote EXCEPT !.tags = @ \cup {remote.head}]
  /\ UNCHANGED <<catalog, wc, marker, loadfile, last>>

\* the user removes the .getgit file of the installed tool
DeleteMarker ==
  /\ Idle
  /\ marker.exists
  /\ marker' = NoMarker
  /\ UNCHANGED <<catalog, remote, wc, loadfile, last>>

\* the user adds, removes or reorders source files
EditSources ==
  /\ Idle
  /\ catalog' \in Catalogs \ {catalog}
  /\ UNCHANGED <<remote, wc, marker, loadfile, last>>

Next ==
  \/ Install
  \/ Upgrade
  \/ Exit
  \/ Uninstall
  \/ RemotePush
  \/ RemoteTag
  \/ DeleteMarker
  \/ EditSources

Spec == Init /\ [][Next]_vars

(***************************************************************************)
(* The batch upgrade, run on a work directory in which k9s is absent or    *)
(* has just been installed on either train.                                *)
(***************************************************************************)
\* the batch that has just run: its arguments and what upgradeAllTools
\* counted
CallAll(others, skipBuild, choice, fault, b, pre) ==
  [op |-> "upgradeall", flag |-> "", skipBuild |-> skipBuild,
   choice |-> choice, fault |-> fault, others |-> others,
   names |-> entries(pre.wc, others), total |-> b.total,
   attempts |-> b.attempts, updated |-> b.updated, skipped |-> b.skipped,
   failed |-> b.failed, err |-> b.err, pre |-> pre]

InitAll ==
  /\ catalog \in Catalogs
  /\ remote \in {[head |-> 1, tags |-> {}], [head |-> 1, tags |-> {1}]}
  /\ \E c \in {Ctx(NoRepo, NoMarker, NoLoad)} \cup
              {installTool(catalog, remote, NoRepo, NoMarker, NoLoad,
                           flag = "--edge", flag = "--release", FALSE, 1,
                           TRUE, TRUE) : flag \in {"", "--edge", "--release"}} :
       /\ wc = c.wc
       /\ marker = c.marker
       /\ loadfile = c.loadfile
  /\ last = NoCall

\* getgit upgrade [--skip-build]
UpgradeAll ==
  /\ Idle
  /\ \E others \in SUBSET OtherEntries, skipBuild \in BOOLEAN,
        choice \in Choices :
       \E fault \in FaultsWith(skipBuild) :
         \E b \in {upgradeAllTools(catalog, remote, wc, marker, loadfile,
                                   others, skipBuild, choice, fault # "net",
                                   fault # "build")} :
           /\ wc' = b.wc
           /\ marker' = b.marker
           /\ loadfile' = b.loadfile
           /\ last' = CallAll(others, skipBuild, choice, fault, b,
                              Pre(wc, marker, loadfile))
  /\ UNCHANGED <<catalog, remote>>

\* the user edits the .getgit file and leaves the sourcefile entry empty
BlankSource ==
  /\ Idle
  /\ marker.exists
  /\ RecordedSource(marker) # ""
  /\ marker' = [marker EXCEPT !.lines =
                  [i \in DOMAIN @ |->
                     IF @[i].k = "sourcefile"
                     THEN [k |-> "sourcefile", v |-> <<"">>] ELSE @[i]]]
  /\ UNCHANGED <<catalog, remote, wc, loadfile, last>>

NextAll ==
  \/ UpgradeAll
  \/ Exit
  \/ RemotePush
  \/ RemoteTag
  \/ DeleteMarker
  \/ BlankSource

SpecAll == InitAll /\ [][NextAll]_vars

(***************************************************************************)
(* The .getgit file on its own: it is written into the directory of an     *)
(* installed tool with every name, train and load command of a small       *)
(* vocabulary, and read back.                                              *)
(***************************************************************************)
MaxLoad == 2

SourceNames == {"", "default", "extra"}

Trains == {UpdateTrainRelease, UpdateTrainEdge, "nightly", ""}

LoadLines == {"export K9S=1", "# init", ""}

\* a load command is a string; it is kept as the sequence of its lines, the
\* empty string as the empty sequence
LoadCommands ==
  UNION {[1..n -> LoadLines] : n \in 0..MaxLoad} \ {<<"">>}

NoRecord == [SourceName |-> "", UpdateTrain |-> "", Load |-> <<>>]

FileCall(op, sourceName, updateTrain, loadCommand, err, nil, g) ==
  [op |-> op, sourceName |-> sourceName, updateTrain |-> updateTrain,
   loadCommand |-> loadCommand, err |-> err, nil |-> nil, g |-> g]

InitFile ==
  /\ catalog = <<mDefault, mExtra>>
  /\ remote = [head |-> 1, tags |-> {1}]
  /\ wc = Clone(remote)
  /\ marker = NoMarker
  /\ loadfile = NoLoad
  /\ last = NoCall

\* getgitfile.WriteToRepo(toolPath, sourceName, updateTrain, loadCommand)
\* into a directory that has no .getgit file yet
WriteFile ==
  /\ last = NoCall
  /\ \E sourceName \in SourceNames, updateTrain \in Trains,
        loadCommand \in LoadCommands :
       LET wr == WriteToRepo(sourceName, updateTrain, loadCommand)
       IN /\ marker' = IF wr.err THEN marker ELSE wr.m
          /\ last' = FileCall("write", sourceName, updateTrain, loadCommand,
                              wr.err, FALSE, NoRecord)
  /\ UNCHANGED <<catalog, remote, wc, loadfile>>

\* getgitfile.ReadFromRepo(toolPath), right after a write
ReadFile ==
  /\ last.op = "write"
  /\ LET rd == ReadFromRepo(marker)
     IN last' = [last EXCEPT !.op = IF last.err THEN "reread" ELSE "read",
                             !.err = rd.err, !.nil = rd.nil, !.g = rd.g]
  /\ UNCHANGED <<catalog, remote, wc, marker, loadfile>>

\* the directory is emptied again
RemoveFile ==
  /\ last.op \in {"read", "reread"}
  /\ marker' = NoMarker
  /\ last' = NoCall
  /\ UNCHANGED <<catalog, remote, wc, loadfile>>

NextFile ==
  \/ WriteFile
  \/ ReadFile
  \/ RemoveFile

SpecFile == InitFile /\ [][NextFile]_vars

(***************************************************************************)
(* Uninstall and install again, on a work directory in which k9s is        *)
(* absent or has just been installed.                                      *)
(***************************************************************************)
\* getgit uninstall <tool>
UninstallTool ==
  /\ Idle
  /\ \E toolName \in Tools, other \in OtherTools :
       LET before == [t \in Tools |->
                        IF t = ToolName THEN Pre(wc, marker, loadfile)
                        ELSE other]
           res == uninstallCmd(before, toolName)
       IN /\ wc' = res.dir[ToolName].wc
          /\ marker' = res.dir[ToolName].marker
          /\ loadfile' = res.dir[ToolName].loadfile
          /\ last' = [op |-> "uninstall", tool |-> toolName,
                      err |-> res.err, before |-> before, after |-> res.dir]
  /\ UNCHANGED <<catalog, remote>>

NextUn ==
  \/ UninstallTool
  \/ Install
  \/ Exit

SpecUn == InitAll /\ [][NextUn]_vars

(***************************************************************************)
(* The catalog lookup on its own: one or two manifests that declare up to  *)
(* MaxRepos repositories each, under names that differ in case or not at   *)
(* all, are searched for every name of a small vocabulary.                 *)
(***************************************************************************)
MaxRepos == 2

RepoNames == {"k9s", "K9s", "aaa"}

QueryNames == {"k9s", "K9S", "aaa", "zed"}

\* the repository declared at place j of a manifest
RepoAt(name, j) ==
  [name |-> name, url |-> <<"owner/", name>>, build |-> "make",
   executable |-> <<"bin/a", "bin/b", "bin/c">>[j], load |-> <<>>]

ManifestsNamed(sourceName) ==
  { [name |-> sourceName, perms |-> <<>>,
     repos |-> [j \in 1..n |-> RepoAt(names[j], j)]] :
      <<n, names>> \in { x \in (0..MaxRepos) \X
                               UNION {[1..k -> RepoNames] : k \in 0..MaxRepos} :
                          Len(x[2]) = x[1] } }

InitFind ==
  /\ catalog \in { <<m>> : m \in ManifestsNamed("default") }
                 \cup { <<m, n>> : m \in ManifestsNamed("default"),
                                   n \in ManifestsNamed("extra") }
  /\ remote = [head |-> 1, tags |-> {}]
  /\ wc = NoRepo
  /\ marker = NoMarker
  /\ loadfile = NoLoad
  /\ last = NoCall

\* sm.FindRepo(name)
Find ==
  /\ Idle
  /\ \E name \in QueryNames :
       last' = [op |-> "find", name |-> name,
                matches |-> FindRepo(catalog, name)]
  /\ UNCHANGED <<catalog, remote, wc, marker, loadfile>>

NextFind ==
  \/ Find
  \/ Exit

SpecFind == InitFind /\ [][NextFind]_vars

(***************************************************************************)
(* getgit update: the manifest files are compared with what their origins  *)
(* serve, rewritten, and the tool index is rebuilt.  Here catalog is the   *)
(* list of manifest files on disk and remote maps an origin to the         *)
(* manifest it serves.                                                     *)
(***************************************************************************)
Gitlab == <<"https://", "gitlab.com", "/">>

OriginA == "https://o/a.yaml"

OriginB == "https://o/b.yaml"

\* the permission sections a manifest file can have
PermSections ==
  { <<>>, << <<>> >>, << <<GithubPrefix>> >>, << <<GithubPrefix, Gitlab>> >> }

uK9s ==
  [name |-> "k9s", url |-> <<"https://", "github.com", "/", "derailed/k9s">>,
   build |-> "make build", executable |-> "execs/k9s", load |-> <<>>]

uAaa ==
  [name |-> "aaa", url |-> <<"https://", "github.com", "/", "fork/aaa">>,
   build |-> " ", executable |-> "", load |-> <<>>]

\* the repos sections a manifest file can have
RepoSections ==
  { <<>>, <<uK9s>>, <<uK9s, uAaa>>, <<uAaa, uK9s>>,
    << [uK9s EXCEPT !.load = <<"curl x | sh">>] >>,
    << [uK9s EXCEPT !.url = <<"https://", "gitlab.com", "/", "x/k9s">>] >>,
    << [uK9s EXCEPT !.build = "go build"], uAaa >>,
    << uK9s, [uK9s EXCEPT !.executable = "bin/k9s"] >> }

SourceData(names, origins) ==
  { [name |-> n, origin |-> o, perms |-> p, repos |-> r] :
      n \in names, o \in origins, p \in PermSections, r \in RepoSections }

\* a second manifest file, without origin
mLocal ==
  [name |-> "local", origin |-> "", perms |-> <<>>, repos |-> <<uAaa>>]

\* what the other origin serves
mMoved ==
  [name |-> "default", origin |-> OriginB, perms |-> <<>>, repos |-> <<uK9s>>]

Unreachable == [name |-> "", origin |-> "", perms |-> <<>>, repos |-> <<>>]

\* the origins declared by a permissions section
Origins(perms) ==
  { perms[i][o] : <<i, o>> \in
      { x \in (1..Len(perms)) \X (1..2) : x[2] <= Len(perms[x[1]]) } }

RepoNamesOf(repos) == { repos[i].name : i \in 1..Len(repos) }

\* the map filled by: for _, repo := range repos { m[repo.Name] = repo }
RepoMap(repos) ==
  [n \in RepoNamesOf(repos) |->
     repos[MaxOf({ i \in 1..Len(repos) : repos[i].name = n })]]

NoChanges ==
  [IdentityChanges |-> {}, PermissionChanges |-> {},
   RepositoryChanges |-> {}, RequiredPermissions |-> {}]

\* ValidateSourceChanges(oldSource, newSource): the changes found
ValidateSourceChanges(oldS, newS) ==
  LET oldOrigins == Origins(oldS.perms)
      newOrigins == Origins(newS.perms)
      oldRepos == RepoMap(oldS.repos)
      newRepos == RepoMap(newS.repos)
      both == DOMAIN oldRepos \cap DOMAIN newRepos
  IN [IdentityChanges |->
        { f \in {"name", "origin"} : oldS[f] # newS[f] },
      RequiredPermissions |-> newOrigins \ oldOrigins,
      PermissionChanges |-> oldOrigins \ newOrigins,
      RepositoryChanges |->
        { <<"added", n>> : n \in DOMAIN newRepos \ DOMAIN oldRepos }
        \cup { <<f, n>> : <<f, n>> \in
                 { x \in {"url", "build", "executable"} \X both :
                     oldRepos[x[2]][x[1]] # newRepos[x[2]][x[1]] } }
        \cup { <<"removed", n>> : n \in DOMAIN oldRepos \ DOMAIN newRepos }]

hasChanges(changes) ==
  \/ changes.IdentityChanges # {}
  \/ changes.PermissionChanges # {}
  \/ changes.RepositoryChanges # {}
  \/ changes.RequiredPermissions # {}

\* sm.UpdateSource(source): fetched is what the origin serves
UpdateSource(source, fetched, net) ==
  LET changes == ValidateSourceChanges(source, fetched)
  IN IF ~net
     THEN [hasChanges |-> FALSE, changes |-> NoChanges, err |-> TRUE,
           newContent |-> Unreachable]
     ELSE IF ~hasChanges(changes)
     THEN [hasChanges |-> FALSE, changes |-> NoChanges, err |-> FALSE,
           newContent |-> Unreachable]
     ELSE [hasChanges |-> TRUE, changes |-> changes,
           err |-> \E i \in 1..Len(fetched.repos) :
                     ~isURLAllowed(fetched, fetched.repos[i].url),
           newContent |-> fetched]

\* sm.ApplySourceUpdate(source): the content of the file afterwards
ApplySourceUpdate(source, newContent) == newContent

\* the condition under which the user is asked
needsApproval(changes) ==
  changes.IdentityChanges # {} \/ changes.RequiredPermissions # {}

\* sm.UpdateSourceWithPrompt(source, forceUpdate, dryRun)
UpdateSourceWithPrompt(source, fetched, net, forceUpdate, dryRun, approved) ==
  LET u == UpdateSource(source, fetched, net)
      done(outcome, prompted, file) ==
        [outcome |-> outcome, changes |-> u.changes, prompted |-> prompted,
         file |-> file]
  IN IF source.origin = "" THEN
       [outcome |-> "noorigin", changes |-> NoChanges, prompted |-> FALSE,
        file |-> source]
     ELSE IF u.err THEN done("error", FALSE, source)
     ELSE IF ~u.hasChanges THEN done("nochanges", FALSE, source)
     ELSE IF dryRun THEN done("dryrun", FALSE, source)
     ELSE IF ~forceUpdate /\ needsApproval(u.changes) /\ ~approved
     THEN done("skipped", TRUE, source)
     ELSE done("updated", ~forceUpdate /\ needsApproval(u.changes),
               ApplySourceUpdate(source, u.newContent))

\* NULLIF(TRIM(?), ''): the text stored for a build command or executable
NullIfBlank(s) == IF s \in {"", " "} THEN "" ELSE s

\* the rows UpdateIndex inserts for the loaded sources, file by file
Rows(sources) ==
  { [name |-> sources[p[1]].repos[p[2]].name,
     url |-> sources[p[1]].repos[p[2]].url,
     build |-> NullIfBlank(sources[p[1]].repos[p[2]].build),
     executable |-> NullIfBlank(sources[p[1]].repos[p[2]].executable),
     source_file |-> p[1],
     source_name |-> sources[p[1]].name,
     load |-> sources[p[1]].repos[p[2]].load] :
       p \in { x \in (1..Len(sources)) \X (1..2) :
                 x[2] <= Len(sources[x[1]].repos) } }

\* sm.UpdateIndex(): UNIQUE(name, source_file) rejects a second row of a
\* name in one file, and the transaction is rolled back
UpdateIndex(sources, index) ==
  IF \E i \in 1..Len(sources) :
       Cardinality(RepoNamesOf(sources[i].repos)) # Len(sources[i].repos)
  THEN [err |-> TRUE, index |-> index]
  ELSE [err |-> FALSE, index |-> Rows(sources)]

\* getgit update [--force] [--dry-run] [--index-only]
updateCmd(files, rem, index, indexOnly, forceUpdate, dryRun, approved, net) ==
  LET sources == files
      res == [i \in 1..Len(sources) |->
                UpdateSourceWithPrompt(
                  sources[i],
                  IF sources[i].origin = "" THEN Unreachable
                  ELSE rem[sources[i].origin],
                  net, forceUpdate, dryRun, approved)]
      ix == UpdateIndex(sources, index)
  IN IF indexOnly
     THEN [files |-> files, log |-> <<>>, indexed |-> TRUE, err |-> ix.err,
           index |-> ix.index]
     ELSE [files |-> [i \in 1..Len(sources) |-> res[i].file],
           log |-> [i \in 1..Len(sources) |-> res[i]],
           indexed |-> ~dryRun,
           err |-> ~dryRun /\ ix.err,
           index |-> IF dryRun THEN index ELSE ix.index]

InitUpdate ==
  /\ \E m \in SourceData({"default"}, {"", OriginA}) :
       catalog \in { <<m>>, <<m, mLocal>> }
  /\ \E f \in SourceData({"default", "renamed"}, {OriginA, OriginB}) :
       remote = [o \in {OriginA, OriginB} |->
                   IF o = OriginA THEN f ELSE mMoved]
  /\ wc = NoRepo
  /\ marker = NoMarker
  /\ loadfile = NoLoad
  /\ last = NoCall

Update ==
  /\ Idle
  /\ \E indexOnly, forceUpdate, dryRun, approved, net \in BOOLEAN :
       LET index == {}  \* the index database as initDB creates it
           u == updateCmd(catalog, remote, index, indexOnly, forceUpdate,
                          dryRun, approved, net)
       IN /\ catalog' = u.files
          /\ last' = [op |-> "update", indexOnly |-> indexOnly,
                      forceUpdate |-> forceUpdate, dryRun |-> dryRun,
                      approved |-> approved, before |-> catalog,
                      log |-> u.log, indexed |-> u.indexed, err |-> u.err,
                      index |-> u.index]
  /\ UNCHANGED <<remote, wc, marker, loadfile>>

NextUpdate ==
  \/ Update
  \/ Exit

SpecUpdate == InitUpdate /\ [][NextUpdate]_vars

(***************************************************************************)
(* Installing from source directories in which one manifest restricts the  *)
(* origins and another does not.                                           *)
(***************************************************************************)
GateCatalogs ==
  { <<mDefault>>, <<mStrict>>, <<mDefault, mStrict>>, <<mStrict, mDefault>>,
    <<mExtra, mStrict>> }

InitGate ==
  /\ catalog \in GateCatalogs
  /\ remote \in {[head |-> 1, tags |-> {}], [head |-> 1, tags |-> {1}]}
  /\ wc = NoRepo
  /\ marker = NoMarker
  /\ loadfile = NoLoad
  /\ last = NoCall

NextGate ==
  \/ Install
  \/ Exit
  \/ RemotePush
  \/ RemoteTag

SpecGate == InitGate /\ [][NextGate]_vars

(***************************************************************************)
(* Installing k9s from source directories in which a manifest spells the   *)
(* repository name K9s.                                                    *)
(***************************************************************************)
CaseCatalogs == { <<mCase>>, <<mDefault, mCase>>, <<mCase, mDefault>> }

InitCase ==
  /\ catalog \in CaseCatalogs
  /\ remote \in {[head |-> 1, tags |-> {}], [head |-> 1, tags |-> {1}]}
  /\ wc = NoRepo
  /\ marker = NoMarker
  /\ loadfile = NoLoad
  /\ last = NoCall

NextCase ==
  \/ Install
  \/ Exit
  \/ RemotePush
  \/ RemoteTag

SpecCase == InitCase /\ [][NextCase]_vars

TypeOK ==
  /\ catalog \in Catalogs
  /\ remote.head \in 1..MaxCommit
  /\ remote.tags \subseteq 1..remote.head
  /\ wc.exists \in BOOLEAN
  /\ marker.exists => wc.exists
  /\ wc.exists => wc.head \in 1..wc.originMain /\ wc.originMain <= remote.head

(***************************************************************************)
(* Properties.  They are read off the command that has just run: last      *)
(* holds its arguments, its log and the state it started from, and the     *)
(* other variables hold what it left behind.                               *)
(***************************************************************************)
\* positions of the events of one kind in a log
Events(log, e) == {i \in 1..Len(log) : log[i].e = e}

\* the events that move the working copy or talk to the remote
Moves(log) ==
  Events(log, "checkout") \cup Events(log, "pull") \cup Events(log, "fetch")

\* what the marker recorded when the command started
PreTrain == RecordedTrain(last.pre.marker)

PreSource == RecordedSource(last.pre.marker)

\* neither the update check of install under the resolved train nor the
\* one of upgrade under the recorded train would have found anything new
Quiet ==
  /\ ~installCheck(last.pre.wc, last.train = UpdateTrainEdge, TRUE).has
  /\ ~checkForUpdates(FetchUpdates(last.pre.wc, remote),
                      PreTrain = UpdateTrainEdge)

\* C1: an upgrade of a tool whose marker records train T, which reports
\* "updated" or "already up to date", leaves the marker recording T.
C1_UpgradeKeepsTrain ==
  (/\ last.op = "upgrade"
   /\ PreTrain # ""
   /\ last.outcome \in {"updated", "uptodate"})
  => RecordedTrain(marker) = PreTrain

\* C2: after a successful install, the same install run again with nothing
\* changed in between reports "up to date", runs no checkout and no build,
\* leaves the marker file as it is, and the two calls together build at most
\* once.
C2_InstallIdempotent ==
  (/\ last.op = "install"
   /\ last.fault = "none"
   /\ last.outcome \in Success)
  => LET again == installTool(catalog, remote, wc, marker, loadfile,
                              last.flag = "--edge", last.flag = "--release",
                              last.skipBuild, last.choice, TRUE, TRUE)
     IN /\ again.outcome = "uptodate"
        /\ Events(again.log, "checkout") = {}
        /\ Events(again.log, "build") = {}
        /\ again.marker = marker
        /\ Cardinality(Events(last.log, "build")) <= 1

\* C3: a first install of k9s, found only in manifest "default", without a
\* train flag and from a repository that has tags, clones once, builds once,
\* writes a marker with sourcefile default and updates release, and
\* registers the alias of the executable.
C3_ScenarioA ==
  (/\ last.op = "install"
   /\ last.flag = ""
   /\ ~last.skipBuild
   /\ last.fault = "none"
   /\ ~last.pre.wc.exists
   /\ catalog = <<mDefault>>
   /\ remote.tags # {})
  => (/\ Cardinality(Events(last.log, "clone")) = 1
      /\ Cardinality(Events(last.log, "build")) = 1
      /\ RecordedSource(marker) = "default"
      /\ RecordedTrain(marker) = UpdateTrainRelease
      /\ loadfile.alias = "execs/k9s")

\* C4: when the build of an install or upgrade fails, the marker on disk is
\* still the one from before the command.
C4_MarkerLast ==
  last.outcome = "buildfail" => marker = last.pre.marker

\* C5: an install whose resolved train differs from the train recorded in
\* the marker writes the marker with the new train first, before any fetch,
\* checkout or pull, runs no update check, and when it succeeds it has run
\* a checkout.
C5_TrainSwitch ==
  (/\ last.op = "install"
   /\ PreTrain # ""
   /\ last.train # ""
   /\ last.train # PreTrain)
  => (/\ Len(last.log) >= 1
      /\ last.log[1].e = "write"
      /\ last.log[1].b = last.train
      /\ \A i \in Moves(last.log) : i > 1
      /\ Events(last.log, "check") = {}
      /\ RecordedTrain(marker) = last.train
      /\ last.outcome \in {"switched", "vcsfail", "buildfail"}
      /\ last.outcome = "switched" => Events(last.log, "checkout") # {})

C5_Witness ==
  /\ last.op = "install"
  /\ PreTrain # ""
  /\ last.train # PreTrain
  /\ last.outcome = "switched"
  /\ Quiet
  /\ Events(last.log, "checkout") # {}

\* C6 (as stated): an upgrade called with --edge on a marker recording
\* release leaves a marker recording edge and runs a checkout.
C6_UpgradeEdgeSwitches ==
  (/\ last.op = "upgrade"
   /\ last.flag = "--edge"
   /\ PreTrain = UpdateTrainRelease)
  => (/\ RecordedTrain(marker) = UpdateTrainEdge
      /\ Events(last.log, "checkout") # {})

\* C6 (amended): install --edge on a marker recording release, once the
\* match is selected and its URL accepted, writes a marker recording edge
\* and then checks out the default branch; upgrade takes no --edge flag:
\* it is rejected and nothing is touched.
C6_InstallEdgeSwitches ==
  /\ (/\ last.op = "install"
      /\ last.flag = "--edge"
      /\ PreTrain = UpdateTrainRelease
      /\ last.train # "")
     => (/\ RecordedTrain(marker) = UpdateTrainEdge
         /\ \E i \in Events(last.log, "checkout") :
              /\ last.log[i].a = "main"
              /\ \E j \in Events(last.log, "write") :
                   j < i /\ last.log[j].b = UpdateTrainEdge)
  /\ (last.op = "upgrade" /\ last.flag = "--edge")
     => (/\ last.outcome = "usage"
         /\ last.log = <<>>
         /\ Pre(wc, marker, loadfile) = last.pre)

C6_Witness ==
  /\ last.op = "install"
  /\ last.flag = "--edge"
  /\ PreTrain = UpdateTrainRelease
  /\ last.outcome = "switched"
  /\ Quiet
  /\ RecordedTrain(marker) = UpdateTrainEdge

\* the precedence of the specification for resolveUpdateTrain
SpecTrain(flag, recorded, noTags) ==
  IF flag = "--edge" THEN <<UpdateTrainEdge, FALSE>>
  ELSE IF flag = "--release"
    THEN IF noTags THEN <<UpdateTrainEdge, TRUE>>
         ELSE <<UpdateTrainRelease, FALSE>>
  ELSE IF recorded # "" THEN <<recorded, FALSE>>
  ELSE IF noTags THEN <<UpdateTrainEdge, TRUE>>
  ELSE <<UpdateTrainRelease, FALSE>>

\* C7: GetUpdateTrain returns (train, fallbackOccurred) as the precedence
\* says: a single flag wins, except release on a repository without tags,
\* which gives edge; else the marker's train; else edge without tags; else
\* release; fallbackOccurred only in the two tagless cases.
C7_TrainPrecedence ==
  \A flag \in {"", "--edge", "--release"} :
    GetUpdateTrain(wc, marker, flag = "--edge", flag = "--release")
      = SpecTrain(flag, RecordedTrain(marker),
                  IF wc.exists THEN wc.tags = {} ELSE remote.tags = {})

\* C8: install --release on a repository without tags resolves to edge and
\* records edge, on a first install as well as on an existing one.
C8_TaglessRelease ==
  (/\ last.op = "install"
   /\ last.flag = "--release"
   /\ remote.tags = {}
   /\ last.train # "")
  => (/\ last.train = UpdateTrainEdge
      /\ RecordedTrain(marker) = UpdateTrainEdge)

\* the repository definition of the tool in the manifest of that name
ManifestRepo(sourceName) ==
  LET src == catalog[CHOOSE i \in 1..Len(catalog) : catalog[i].name = sourceName]
  IN src.repos[CHOOSE j \in 1..Len(src.repos) : EqualFold(src.repos[j].name, ToolName)]

\* every side effect of the log belongs to the match of that manifest
UsesOnly(log, sourceName) ==
  \A i \in 1..Len(log) :
    /\ log[i].e \in {"clone", "write"} => log[i].a = sourceName
    /\ log[i].e = "build" => log[i].a = ManifestRepo(sourceName).build
    /\ log[i].e = "alias" => log[i].a = ManifestRepo(sourceName).executable

\* C9: with the tool in two or more manifests and no marker, install and
\* upgrade use the match chosen at the prompt, whatever its position; when
\* the prompt gives no valid choice the command fails and nothing is cloned,
\* checked out, built or written.
C9_PromptRequired ==
  (/\ last.op \in {"install", "upgrade"}
   /\ last.outcome \notin {"usage", "notinstalled"}
   /\ Len(FindRepo(catalog, ToolName)) >= 2
   /\ ~last.pre.marker.exists)
  => IF last.choice \notin 1..Len(FindRepo(catalog, ToolName))
     THEN /\ last.outcome = "selectfail"
          /\ Moves(last.log) = {}
          /\ Events(last.log, "build") = {}
          /\ Pre(wc, marker, loadfile) = last.pre
     ELSE /\ Events(last.log, "prompt") = {1}
          /\ last.source
               \in {"", FindRepo(catalog, ToolName)[last.choice].Source.name}
          /\ UsesOnly(last.log,
                      FindRepo(catalog, ToolName)[last.choice].Source.name)

C9_Witness ==
  /\ last.op \in {"install", "upgrade"}
  /\ ~last.pre.marker.exists
  /\ last.choice = 2
  /\ Len(FindRepo(catalog, ToolName)) >= 2
  /\ Events(last.log, "prompt") = {1}
  /\ last.source = FindRepo(catalog, ToolName)[2].Source.name
  /\ Events(last.log, "build") # {}

\* C10: with a working copy and a valid marker naming a manifest that has
\* the tool, install and upgrade never prompt and use the match of that
\* manifest, however many manifests have the tool and in whatever order
\* they were loaded.
C10_MarkerPins ==
  (/\ last.op \in {"install", "upgrade"}
   /\ last.outcome # "usage"
   /\ last.pre.wc.exists
   /\ PreSource # ""
   /\ \E i \in 1..Len(catalog) :
        /\ catalog[i].name = PreSource
        /\ SourceFindRepo(catalog[i], ToolName) # <<>>)
  => (/\ Events(last.log, "prompt") = {}
      /\ last.outcome \notin {"selectfail", "stale", "notfound"}
      /\ last.source \in {"", PreSource}
      /\ UsesOnly(last.log, PreSource))

C10_Witness ==
  /\ last.op \in {"install", "upgrade"}
  /\ PreSource # ""
  /\ Len(FindRepo(catalog, ToolName)) >= 2
  /\ last.source = FindRepo(catalog, ToolName)[2].Source.name
  /\ last.source = PreSource
  /\ Events(last.log, "prompt") = {}
  /\ Events(last.log, "build") # {}

\* some loaded manifest of that name has the tool
ManifestHasTool(sourceName) ==
  \E i \in 1..Len(catalog) :
    /\ catalog[i].name = sourceName
    /\ SourceFindRepo(catalog[i], ToolName) # <<>>

\* C11: when the marker names a manifest that no longer has the tool while
\* another manifest has it, install and upgrade fail with the stale
\* provenance error and write no marker, run no checkout and no build and
\* change no alias.
C11_StaleProvenance ==
  (/\ last.op \in {"install", "upgrade"}
   /\ last.outcome # "usage"
   /\ last.pre.wc.exists
   /\ PreSource # ""
   /\ ~ManifestHasTool(PreSource)
   /\ Len(FindRepo(catalog, ToolName)) >= 1)
  => (/\ last.outcome = "stale"
      /\ last.log = <<>>
      /\ Pre(wc, marker, loadfile) = last.pre)

C11_Witness ==
  /\ last.op \in {"install", "upgrade"}
  /\ last.outcome = "stale"
  /\ PreSource = "extra"
  /\ catalog = <<mDefault>>

\* the URL as install normalizes it: owner/repo becomes the GitHub URL
Normalized(url) ==
  IF HasPrefix(url, <<"http://">>) \/ HasPrefix(url, <<"https://">>)
  THEN url
  ELSE GithubPrefix \o TrimPrefix(url, <<"github.com", "/">>) \o <<".git">>

\* the manifest the command selected
SelectedManifest ==
  catalog[CHOOSE i \in 1..Len(catalog) : catalog[i].name = last.source]

\* C12: when the origin policy of the selected manifest rejects the
\* normalized URL of the tool, install fails at the validation: nothing is
\* cloned, fetched, checked out, built, written or registered.
C12_PermissionGate ==
  (/\ last.op = "install"
   /\ last.source # ""
   /\ ~isURLAllowed(SelectedManifest,
                    Normalized(ManifestRepo(last.source).url)))
  => (/\ last.outcome = "urlfail"
      /\ \A i \in 1..Len(last.log) : last.log[i].e = "prompt"
      /\ Pre(wc, marker, loadfile) = last.pre)

C12_Witness ==
  /\ last.op = "install"
  /\ last.source = "strict"
  /\ last.outcome = "urlfail"
  /\ catalog = <<mStrict>>

\* origin occurs somewhere inside url
Contains(url, origin) ==
  \E k \in 1..(Len(url) - Len(origin) + 1) :
    SubSeq(url, k, k + Len(origin) - 1) = origin

\* C13: a manifest that lists at least one origin allows a URL exactly when
\* the URL contains one of its listed origins, so origins ["github.com"]
\* allow https://github.com/... and reject https://gitlab.com/...
C13_OriginSubstring ==
  \A i \in 1..Len(catalog), j \in 1..Len(catalog) :
   \A k \in 1..Len(catalog[j].repos) :
    LET src == catalog[i]
        url == Normalized(catalog[j].repos[k].url)
        origins == { src.perms[p][o] :
                       <<p, o>> \in { x \in (1..Len(src.perms)) \X (1..1) :
                                        x[2] <= Len(src.perms[x[1]]) } }
    IN origins # {} =>
         (isURLAllowed(src, url) <=> \E g \in origins : Contains(url, g))

\* C14: when the update check of install or of upgrade <tool> finds nothing
\* newer, the command runs no checkout and no build and ends as a
\* successful no-op: "already up to date", without an error.
C14_UpToDateNoOp ==
  (/\ last.op \in {"install", "upgrade"}
   /\ \E i \in Events(last.log, "check") : last.log[i].b = "none")
  => (/\ Events(last.log, "checkout") = {}
      /\ Events(last.log, "build") = {}
      /\ last.outcome = "uptodate"
      /\ ~ReturnsError(last.op, last.outcome))

\* C15: every update check of install and of upgrade comes after a fetch in
\* the same run, so a commit pushed to the default branch (edge train) or a
\* tag pushed beyond the installed commit (release train) before the call is
\* reported as an available update.
C15_CheckSeesRemote ==
  \A i \in Events(last.log, "check") :
    /\ \E j \in Events(last.log, "fetch") : j < i
    /\ (last.log[i].a = UpdateTrainEdge /\ remote.head # last.pre.wc.head)
         => last.log[i].b = "updates"
    /\ (last.log[i].a = UpdateTrainRelease
          /\ \E t \in remote.tags : t > last.pre.wc.head)
         => last.log[i].b = "updates"

\* C16: for a tool on the release train whose repository has no tag at all,
\* the release update check of install and of upgrade answers "update
\* needed", never "up to date".
C16_TaglessNeedsUpdate ==
  \A i \in Events(last.log, "check") :
    (/\ last.log[i].a = UpdateTrainRelease
     /\ remote.tags = {}
     /\ last.pre.wc.tags = {})
    => last.log[i].b = "updates"

\* the working copies of the work directory, in the order of the listing
ToolsFound == SelectSeq(last.names, hasGit)

\* C17: upgrade without arguments tries every working copy of the work
\* directory exactly once, in one pass and in the order of the listing,
\* however many of the earlier ones failed.
C17_EveryToolOnce ==
  last.op = "upgradeall"
  => /\ Len(last.attempts) = Len(ToolsFound)
     /\ \A i \in 1..Len(ToolsFound) : last.attempts[i].name = ToolsFound[i]

\* k9s, the second of three tools, fails its build; aaa and zed are tried
C17_Witness ==
  /\ last.op = "upgradeall"
  /\ Len(last.attempts) = 3
  /\ last.attempts[1].name = "aaa"
  /\ last.attempts[2] = [name |-> ToolName, outcome |-> "buildfail"]
  /\ last.attempts[3].name = "zed"

\* the attempts of the batch that ended with one of these outcomes
Ended(outcomes) ==
  {i \in 1..Len(last.attempts) : last.attempts[i].outcome \in outcomes}

\* C18: when upgrade without arguments ends, every working copy it found is
\* counted once as updated, as skipped (already up to date) or as failed, so
\* the three counters add up to the number of tools found, and the command
\* returns an error exactly when at least one tool failed.
C18_CountsAddUp ==
  last.op = "upgradeall"
  => /\ last.total = Len(ToolsFound)
     /\ last.updated + last.skipped + last.failed = last.total
     /\ last.updated = Cardinality(Ended({"updated"}))
     /\ last.skipped = Cardinality(Ended({"uptodate"}))
     /\ last.err <=> last.failed >= 1

C18_Witness ==
  /\ last.op = "upgradeall"
  /\ last.updated = 1
  /\ last.skipped = 1
  /\ last.failed = 1
  /\ last.err

\* C19: reading the marker gives "no record, no error" exactly when there
\* is no .getgit file; a file whose sourcefile entry is empty gives a
\* validation error, and the train resolution does not go on as if that
\* file were absent.
C19_InvalidMarkerSurfaced ==
  LET rd == ReadFromRepo(marker)
  IN /\ (rd.nil /\ ~rd.err) <=> ~marker.exists
     /\ (marker.exists /\ rd.g.SourceName = "") => rd.err
     /\ rd.err => GetUpdateTrain(wc, marker, FALSE, FALSE)
                    # GetUpdateTrain(wc, NoMarker, FALSE, FALSE)

Kept(loadCommand) ==
  SelectSeq(loadCommand, LAMBDA l : l # "" /\ l \notin CommentLines)

C21_Uninstall ==
  last.op = "uninstall"
  => /\ last.after[ToolName] = Pre(wc, marker, loadfile)
     /\ \A t \in Tools \ {last.tool} : last.after[t] = last.before[t]
     /\ IF last.before[last.tool].wc.exists
        THEN /\ ~last.err
             /\ last.after[last.tool] = Gone
        ELSE /\ last.err
             /\ last.after = last.before
     /\ (last.tool = ToolName /\ ~last.err)
        => \A flag \in {"", "--edge", "--release"} :
             installTool(catalog, remote, wc, marker, loadfile,
                         flag = "--edge", flag = "--release", FALSE, 1,
                         TRUE, TRUE)
             = installTool(catalog, remote, NoRepo, NoMarker, NoLoad,
                           flag = "--edge", flag = "--release", FALSE, 1,
                           TRUE, TRUE)

\* k9s, installed with its alias, is uninstalled next to an installed aaa
C21_Witness ==
  /\ last.op = "uninstall"
  /\ last.tool = ToolName
  /\ ~last.err
  /\ last.before[ToolName].loadfile.alias # ""
  /\ last.before["aaa"].wc.exists
  /\ last.after["aaa"].loadfile.alias = "aaa"


\* the places <<manifest, repository>> of the catalog whose repository name
\* is the given name up to letter case
Places(name) ==
  { p \in (1..Len(catalog)) \X (1..(MaxRepos + 1)) :
      /\ p[2] <= Len(catalog[p[1]].repos)
      /\ EqualFold(catalog[p[1]].repos[p[2]].name, name) }

\* the rank of a place among the places, manifests first
Rank(p, places) ==
  1 + Cardinality({ q \in places :
                      q[1] < p[1] \/ (q[1] = p[1] /\ q[2] < p[2]) })

\* C22: the lookup returns the pairs (repository, manifest) whose repository
\* name equals the given name up to letter case, all of them and no others,
\* in manifest load order and then in declaration order.
C22_FindByName ==
  last.op = "find"
  => LET places == Places(last.name)
     IN /\ Len(last.matches) = Cardinality(places)
        /\ \A p \in places :
             last.matches[Rank(p, places)]
               = [Repo |-> catalog[p[1]].repos[p[2]], Source |-> catalog[p[1]]]

\* a name written in two ways in the first manifest and once in the second
C22_Witness ==
  /\ last.op = "find"
  /\ last.name = "K9S"
  /\ Len(last.matches) = 3
  /\ last.matches[1].Repo.name = "K9s"
  /\ last.matches[2].Repo.name = "k9s"
  /\ last.matches[3].Source.name = "extra"

\* the manifest the origin of file i served during the update that just ran
Fetched(i) == remote[last.before[i].origin]

\* C23: a manifest file is overwritten only when it has an origin, the
\* fetched version differs, --dry-run is off and, if the changes touch the
\* name, the origin or the permissions and --force is off, the user was
\* asked and approved; with --dry-run nothing is written and a declined
\* prompt leaves the file unchanged.
C23_WriteGate ==
  (last.op = "update" /\ ~last.indexOnly)
  => /\ last.dryRun => catalog = last.before
     /\ \A i \in 1..Len(last.log) :
          LET e == last.log[i]
          IN /\ e.outcome # "updated" => catalog[i] = last.before[i]
             /\ e.outcome = "updated"
                => /\ last.before[i].origin # ""
                   /\ Fetched(i) # last.before[i]
                   /\ catalog[i] = Fetched(i)
                   /\ ~last.dryRun
                   /\ ( /\ ~last.forceUpdate
                        /\ \/ e.changes.IdentityChanges # {}
                           \/ e.changes.PermissionChanges # {}
                           \/ e.changes.RequiredPermissions # {} )
                      => e.prompted /\ last.approved

\* C24: after a successful update run without --dry-run the tool index holds
\* exactly the repositories declared by the manifest files as they are on
\* disk at the end of the run, one row per tool name and manifest.
C24_IndexMatchesDisk ==
  (last.op = "update" /\ ~last.dryRun /\ ~last.err)
  => /\ last.indexed
     /\ last.index = Rows(catalog)
     /\ \A r1, r2 \in last.index :
          (r1.name = r2.name /\ r1.source_file = r2.source_file) => r1 = r2

\* the repositories a manifest declares
Declared(m) == { m.repos[i] : i \in 1..Len(m.repos) }

\* C29: the comparison of the manifest on disk with the fetched one reports
\* no changes if and only if the two are identical in name, origin, set of
\* declared origins and every field (url, build, executable, load) of every
\* repository; a fetched manifest that differs is written like any other
\* change once nothing stands in the way.
C29_ChangeDetection ==
  (last.op = "update" /\ ~last.indexOnly)
  => \A i \in 1..Len(last.log) :
       LET old == last.before[i]
           new == Fetched(i)
           same == /\ old.name = new.name
                   /\ old.origin = new.origin
                   /\ Origins(old.perms) = Origins(new.perms)
                   /\ Declared(old) = Declared(new)
       IN last.log[i].outcome \notin {"noorigin", "error"}
          => /\ last.log[i].outcome = "nochanges" <=> same
             /\ (~same /\ last.forceUpdate /\ ~last.dryRun)
                => catalog[i] = new

\* the same manifest with its absence of origins written the other way
OtherSpelling(m) ==
  [m EXCEPT !.perms = IF @ = <<>> THEN << <<>> >> ELSE <<>>]

\* C26: a manifest without origin restriction gets the same verdict for
\* every repository URL whether it has no permission entries or entries
\* whose origin lists are all empty.
C26_OneDefaultPolicy ==
  (last.op = "update" /\ ~last.indexOnly)
  => \A i \in 1..Len(last.log) :
       (last.before[i].origin # "" /\ Origins(Fetched(i).perms) = {})
       => \A j \in 1..Len(Fetched(i).repos) :
            isURLAllowed(Fetched(i), Fetched(i).repos[j].url)
            = isURLAllowed(OtherSpelling(Fetched(i)), Fetched(i).repos[j].url)

\* C27: install fails at the permission gate exactly when the permission
\* entries of the selected manifest reject the normalized URL; the other
\* loaded manifests do not change the verdict.
C27_GateOfSelectedManifest ==
  (last.op = "install" /\ last.source # "")
  => (last.outcome = "urlfail"
      <=> ~isURLAllowed(SelectedManifest,
                        Normalized(ManifestRepo(last.source).url)))

\* the working copy as the update step of the command that just ran found it
StartWc ==
  IF last.op = "upgrade" THEN FetchUpdates(last.pre.wc, remote)
  ELSE IF last.pre.wc.exists THEN last.pre.wc
  ELSE Clone(remote)

\* the update step of the command that just ran got past its VCS move
Stepped ==
  /\ last.op \in {"install", "upgrade"}
  /\ \E i \in 1..Len(last.log) :
       /\ last.log[i].b = "ok"
       /\ \/ last.log[i].e = "pull"
          \/ last.log[i].e = "checkout" /\ last.log[i].a = "tag"

C28_FailedBuildRetried ==
  (last.op \in {"install", "upgrade"} /\ last.outcome = "buildfail")
  => \A choice \in Choices :
       LET again == IF last.op = "install"
                    THEN installTool(catalog, remote, wc, marker, loadfile,
                                     last.flag = "--edge",
                                     last.flag = "--release", FALSE, choice,
                                     TRUE, TRUE)
                    ELSE upgradeCmd(catalog, remote, wc, marker, loadfile,
                                    last.flag, FALSE, choice, TRUE, TRUE)
       IN /\ Events(again.log, "build") # {}
          /\ (loadfile.alias = "" => again.outcome # "uptodate")

\* C30: the update step of an install works in the directory that the same
\* call found installed or has just cloned into, so it never finds that
\* directory missing, also when the manifest spells the name of the tool
\* with other letter case than the command line.
C30_OneWorkingCopy ==
  last.op = "install"
  => /\ last.outcome # "norepo"
     /\ (last.outcome \in Success /\ ~last.skipBuild /\ ~last.pre.wc.exists)
          => (wc.exists /\ marker.exists /\ loadfile.alias # "")

====
